---- MODULE Spec2Model ----
(***************************************************************************)
(* State & scheduling core of bun-cloud-agent.                             *)
(*                                                                         *)
(* Part 1: SQLiteStateAdapter (chat/state-adapter.ts): the TTL cache       *)
(* (table chat_cache) and the token locks (table chat_locks).  Every       *)
(* method of the adapter is an async function without an await inside, so  *)
(* each call runs to completion as one atomic step.  Date.now() is the     *)
(* variable now, advanced by Tick.                                         *)
(***************************************************************************)
EXTENDS Integers, FiniteSets, Sequences, TLC

\* ---------------------------------------------------------------- bounds
MaxTime == 3
MaxTTL == 2
MaxTokens == 2

Resources == {"thread-1", "thread-2"}
Keys == {"key-1", "key-2"}

\* SQL NULL / JS null / JS undefined for the numeric columns and arguments.
NULL == 0 - 1

\* JS values handed to set(): two strings and the number NaN; JSNull is null.
NaN == "NaN"
JSNull == "<null>"
Values == {"first", NaN}

LockTTLs == 0..MaxTTL
CacheTTLs == (0..MaxTTL) \cup {NULL}

VARIABLES
    now,          \* Date.now()
    chat_locks,   \* rows of table chat_locks: [thread_id, token, expires_at]
    chat_cache,   \* rows of table chat_cache: [key, value, expires_at]
    nextToken,    \* source of randomUUIDv7(): the next unused token
    issued,       \* history: every Lock acquireLock returned, [thread_id, token]
    lastAcquire,  \* history: per resource the last successful acquireLock
                  \*   [thread_id, until] (until = call time + ttl), dropped by
                  \*   an extendLock that succeeded or a releaseLock that
                  \*   deleted the row
    lastSet,      \* history: per key the last set() [key, value, ttl, at, over],
                  \*   over = the row it overwrote ("none", "ttl": one with an
                  \*   expiry, "forever": one without); dropped by delete()
    ret,          \* the call made by the last step and what it returned
    chat_subscriptions, \* rows of table chat_subscriptions:
                  \*   [thread_id, subscribed_at]
    lastCall,     \* history: per resource the most recent subscribe or
                  \*   unsubscribe call, [thread_id, op]
    scheduled_tasks, \* rows of table scheduled_tasks
    task_runs,    \* rows of table task_runs
    running,      \* TaskScheduler.running
    crons,        \* TaskScheduler.crons: the Map's entries, one Cron each
    timers,       \* the Cron objects that were created and not stopped
    inflight,     \* the executeTask calls awaiting agent.generate
    db_file,      \* the database file: [journal, master], master the rows
                  \*   of sqlite_master in order, [type, name] each
    out           \* the rows the last list query returned, in order

vars == <<now, chat_locks, chat_cache, nextToken, issued, lastAcquire, lastSet, ret,
          chat_subscriptions, lastCall, scheduled_tasks, task_runs,
          running, crons, timers, inflight, db_file, out>>
lockVars == <<chat_locks, nextToken, issued, lastAcquire>>
cacheVars == <<chat_cache, lastSet>>
subsVars == <<chat_subscriptions, lastCall>>
dbVars == <<db_file>>
storeVars == <<scheduled_tasks, task_runs>>
schedVars == <<running, crons, timers, inflight>>
taskVars == <<storeVars, schedVars, out>>

\* ------------------------------------------------------------ JS helpers
\* JS truthiness of a number | null | undefined (`x ? a : b`, `x && y`).
Truthy(x) == x # NULL /\ x # 0

\* JSON.stringify: NaN (like null) serialises as the text null.
JSON_stringify(v) ==
    IF v \in {NaN, JSNull} THEN "null" ELSE "\"" \o v \o "\""

\* JSON.parse: the value whose JSON text this is.
JSON_parse(text) ==
    CHOOSE v \in (Values \cup {JSNull}) \ {NaN} : JSON_stringify(v) = text

\* The record describing a call (its operation, the resource or key, the
\* token and the ttl it was given) and its result (ok: a lock / true / a cache
\* hit; the token of the lock returned; the value returned).
Ret(op, id, ok, token, ttl, value) ==
    [op |-> op, id |-> id, ok |-> ok, token |-> token, ttl |-> ttl, value |-> value]

\* ------------------------------------------------------------ SQL helpers
\* INSERT OR REPLACE INTO chat_locks: thread_id is the PRIMARY KEY.
LocksInsert_NoReplace(table, row) == table \cup {row}

LocksInsertOrReplace(table, row) ==
    {r \in table : r.thread_id # row.thread_id} \cup {row}

\* INSERT OR REPLACE INTO chat_cache: key is the PRIMARY KEY.
CacheInsertOrReplace(table, row) ==
    {r \in table : r.key # row.key} \cup {row}

\* DELETE FROM chat_locks WHERE expires_at < ?
DeleteExpiredLocks_Inclusive(table, t) == {r \in table : ~(r.expires_at <= t)}

DeleteExpiredLocks(table, t) == {r \in table : ~(r.expires_at < t)}

\* SELECT ... FROM chat_locks WHERE thread_id = ?
SelectLock(table, threadId) == {r \in table : r.thread_id = threadId}

\* SELECT value, expires_at FROM chat_cache WHERE key = ?
SelectCache(table, key) == {r \in table : r.key = key}

\* `existing.expires_at > now`: the stored lock still blocks an acquirer.
StillHeld_Inclusive(row, t) == row.expires_at >= t

StillHeld(row, t) == row.expires_at > t

\* `row.expires_at && row.expires_at < Date.now()`: the cache row has expired.
Expired_NoNullCheck(expires_at, t) == expires_at < t

Expired(expires_at, t) == Truthy(expires_at) /\ expires_at < t

\* `Date.now() + ttlMs`
NewExpiry_NoNow(t, ttlMs) == ttlMs

NewExpiry(t, ttlMs) == t + ttlMs

\* randomUUIDv7(): a token no earlier call returned.
randomUUIDv7_Reused == IF nextToken > 1 THEN nextToken - 1 ELSE nextToken

randomUUIDv7 == nextToken

\* ---------------------------------------------------- the database file
\* initDatabase (state/db.ts).  The rows of the tables are the table
\* variables; db_file is what else the file holds.
FilePath == "data/agent.db"
MemoryPath == ":memory:"
Paths == {FilePath, MemoryPath}

\* The CREATE statements of the schema, in the order db.exec runs them.
Statements ==
    << [type |-> "table", name |-> "conversations"],
       [type |-> "index", name |-> "idx_conversations_thread"],
       [type |-> "table", name |-> "memories"],
       [type |-> "table", name |-> "chat_subscriptions"],
       [type |-> "table", name |-> "chat_cache"],
       [type |-> "table", name |-> "chat_locks"],
       [type |-> "table", name |-> "scheduled_tasks"],
       [type |-> "table", name |-> "task_runs"],
       [type |-> "index", name |-> "idx_task_runs_task"],
       [type |-> "table", name |-> "feed_sources"],
       [type |-> "table", name |-> "feed_entries"],
       [type |-> "index", name |-> "idx_feed_entries_unique"],
       [type |-> "index", name |-> "idx_feed_entries_unseen"],
       [type |-> "table", name |-> "memories_fts"],
       [type |-> "trigger", name |-> "memories_ai"],
       [type |-> "trigger", name |-> "memories_ad"],
       [type |-> "trigger", name |-> "memories_au"] >>

\* A database with nothing in it: a path with no file yet, and what
\* new Database(":memory:") starts from each time.
EmptyDatabase == [journal |-> "delete", master |-> <<>>]

\* CREATE ... IF NOT EXISTS: nothing when an object has the name.
CreateIfNotExists_Always(master, object) == Append(master, object)

CreateIfNotExists(master, object) ==
    IF \E i \in DOMAIN master : master[i].name = object.name
    THEN master
    ELSE Append(master, object)

\* db.exec of the statements, one after the other.
RECURSIVE Exec(_, _)
Exec(master, statements) ==
    IF statements = <<>> THEN master
    ELSE Exec(CreateIfNotExists(master, Head(statements)), Tail(statements))

\* PRAGMA journal_mode = WAL: kept in the file; a database in memory stays
\* in mode memory.
JournalMode(path) == IF path = MemoryPath THEN "memory" ELSE "wal"

\* What initDatabase(path) makes of the database it opened.
Initialized(database, path) ==
    [journal |-> JournalMode(path), master |-> Exec(database.master, Statements)]

\* ------------------------------------------------------------------ Init
\* Every table empty, nothing called yet.
NoRows ==
    /\ now = 1
    /\ chat_locks = {}
    /\ chat_cache = {}
    /\ nextToken = 1
    /\ issued = {}
    /\ lastAcquire = {}
    /\ lastSet = {}
    /\ ret = Ret("init", "", FALSE, 0, 0, JSNull)
    /\ chat_subscriptions = {}
    /\ lastCall = {}
    /\ scheduled_tasks = {}
    /\ task_runs = {}
    /\ running = FALSE
    /\ crons = {}
    /\ timers = {}
    /\ inflight = {}
    /\ out = <<>>

\* After initDatabase on a new path and the construction of the adapter
\* and the scheduler.
Init ==
    /\ NoRows
    /\ db_file = Initialized(EmptyDatabase, FilePath)

\* Before the first initDatabase: no file at the path.
InitNoFile ==
    /\ NoRows
    /\ db_file = EmptyDatabase

\* Time passes between calls.
Tick ==
    /\ now < MaxTime
    /\ now' = now + 1
    /\ ret' = Ret("tick", "", FALSE, 0, 0, JSNull)
    /\ UNCHANGED <<lockVars, cacheVars, subsVars, dbVars, taskVars>>

\* ----------------------------------------------------------------- cache
get(key) ==
    LET rows == SelectCache(chat_cache, key) IN
    /\ IF rows = {}
       THEN /\ ret' = Ret("get", key, FALSE, 0, 0, JSNull)
            /\ UNCHANGED chat_cache
       ELSE LET row == CHOOSE r \in rows : TRUE IN
            IF Expired(row.expires_at, now)
            THEN /\ chat_cache' = {r \in chat_cache : r.key # key}
                 /\ ret' = Ret("get", key, FALSE, 0, 0, JSNull)
            ELSE /\ ret' = Ret("get", key, TRUE, 0, 0, JSON_parse(row.value))
                 /\ UNCHANGED chat_cache
    /\ UNCHANGED <<now, lockVars, lastSet, subsVars, dbVars, taskVars>>

set(key, value, ttlMs) ==
    LET expiresAt == IF Truthy(ttlMs) THEN now + ttlMs ELSE NULL IN
    /\ chat_cache' = CacheInsertOrReplace(chat_cache,
           [key |-> key, value |-> JSON_stringify(value), expires_at |-> expiresAt])
    /\ lastSet' = {h \in lastSet : h.key # key}
           \cup {[key |-> key, value |-> value, ttl |-> ttlMs, at |-> now,
                   over |-> IF SelectCache(chat_cache, key) = {} THEN "none"
                            ELSE IF \E r \in SelectCache(chat_cache, key) : r.expires_at = NULL
                                 THEN "forever" ELSE "ttl"]}
    /\ ret' = Ret("set", key, TRUE, 0, ttlMs, value)
    /\ UNCHANGED <<now, lockVars, subsVars, dbVars, taskVars>>

delete(key) ==
    /\ chat_cache' = {r \in chat_cache : r.key # key}
    /\ lastSet' = {h \in lastSet : h.key # key}
    /\ ret' = Ret("delete", key, TRUE, 0, 0, JSNull)
    /\ UNCHANGED <<now, lockVars, subsVars, dbVars, taskVars>>

\* ----------------------------------------------------------------- locks
acquireLock(threadId, ttlMs) ==
    LET swept == DeleteExpiredLocks(chat_locks, now)
        existing == SelectLock(swept, threadId)
    IN
    /\ IF \E e \in existing : StillHeld(e, now)
       THEN /\ chat_locks' = swept
            /\ ret' = Ret("acquireLock", threadId, FALSE, 0, ttlMs, JSNull)
            /\ UNCHANGED <<nextToken, issued, lastAcquire>>
       ELSE LET token == randomUUIDv7
                expiresAt == NewExpiry(now, ttlMs)
            IN
            /\ nextToken <= MaxTokens
            /\ chat_locks' = LocksInsertOrReplace(swept,
                   [thread_id |-> threadId, token |-> token, expires_at |-> expiresAt])
            /\ nextToken' = nextToken + 1
            /\ issued' = issued \cup {[thread_id |-> threadId, token |-> token]}
            /\ lastAcquire' = {h \in lastAcquire : h.thread_id # threadId}
                   \cup {[thread_id |-> threadId, until |-> now + ttlMs]}
            /\ ret' = Ret("acquireLock", threadId, TRUE, token, ttlMs, JSNull)
    /\ UNCHANGED <<now, cacheVars, subsVars, dbVars, taskVars>>

\* The stored token is compared with lock.token (`existing.token !== lock.token`).
TokenMatches_Always(stored, presented) == TRUE

TokenMatches(stored, presented) == stored = presented

extendLock(lock, ttlMs) ==
    LET existing == SelectLock(chat_locks, lock.thread_id) IN
    /\ IF existing = {} \/ \E e \in existing : ~TokenMatches(e.token, lock.token)
       THEN /\ ret' = Ret("extendLock", lock.thread_id, FALSE, lock.token, ttlMs, JSNull)
            /\ UNCHANGED <<chat_locks, lastAcquire>>
       ELSE LET newExpiry == NewExpiry(now, ttlMs) IN
            /\ chat_locks' =
                   {IF r.thread_id = lock.thread_id /\ r.token = lock.token
                    THEN [r EXCEPT !.expires_at = newExpiry] ELSE r : r \in chat_locks}
            /\ lastAcquire' = {h \in lastAcquire : h.thread_id # lock.thread_id}
            /\ ret' = Ret("extendLock", lock.thread_id, TRUE, lock.token, ttlMs, JSNull)
    /\ UNCHANGED <<now, nextToken, issued, cacheVars, subsVars, dbVars, taskVars>>

\* DELETE FROM chat_locks WHERE thread_id = ? AND token = ?
DeleteLock_ByThreadOnly(table, lock) ==
    {r \in table : r.thread_id # lock.thread_id}

DeleteLock(table, lock) ==
    {r \in table : ~(r.thread_id = lock.thread_id /\ r.token = lock.token)}

releaseLock(lock) ==
    /\ chat_locks' = DeleteLock(chat_locks, lock)
    /\ lastAcquire' = IF chat_locks' # chat_locks
                      THEN {h \in lastAcquire : h.thread_id # lock.thread_id}
                      ELSE lastAcquire
    /\ ret' = Ret("releaseLock", lock.thread_id, chat_locks' # chat_locks, lock.token, 0, JSNull)
    /\ UNCHANGED <<now, nextToken, issued, cacheVars, subsVars, dbVars, taskVars>>

\* A Lock object a caller can present: one it was given, one of another
\* resource, or a made-up one (token 0 is never issued).
PresentableLocks ==
    {[thread_id |-> r, token |-> t] : r \in Resources, t \in 0..(nextToken - 1)}

\* ------------------------------------------------------------------ Next
LockNext ==
    \/ \E r \in Resources, ttl \in LockTTLs : acquireLock(r, ttl)
    \/ \E l \in PresentableLocks, ttl \in LockTTLs : extendLock(l, ttl)
    \/ \E l \in PresentableLocks : releaseLock(l)

CacheNext ==
    \/ \E k \in Keys : get(k)
    \/ \E k \in Keys, v \in Values, ttl \in CacheTTLs : set(k, v, ttl)
    \/ \E k \in Keys : delete(k)

\* The lock manager alone, and the cache alone, each with every input.
SpecLock == Init /\ [][Tick \/ LockNext]_vars
SpecCache == Init /\ [][Tick \/ CacheNext]_vars

\* Both tables of one adapter. The two tables share nothing but the clock and
\* every call reads and writes one of them only, so the calls of one table
\* are taken while the other one is still untouched: every call of either
\* kind is taken from every state its own table can reach.
AdapterNext ==
    \/ Tick
    \/ (chat_cache = {} /\ lastSet = {}) /\ LockNext
    \/ (chat_locks = {} /\ nextToken = 1) /\ CacheNext

SpecAdapter == Init /\ [][AdapterNext]_vars

\* --------------------------------------------------------- subscriptions
\* INSERT OR REPLACE INTO chat_subscriptions: thread_id is the PRIMARY KEY.
SubsInsertOrReplace(table, row) ==
    {r \in table : r.thread_id # row.thread_id} \cup {row}

\* DELETE FROM chat_subscriptions WHERE thread_id = ?
SubsDelete_EveryRow(table, threadId) == {}

SubsDelete(table, threadId) == {r \in table : r.thread_id # threadId}

\* SELECT thread_id FROM chat_subscriptions WHERE thread_id = ?
SelectSubscription(table, threadId) == {r \in table : r.thread_id = threadId}

\* The history entry of a subscribe / unsubscribe call: again tells whether
\* the call before it on the same resource was the same one.
Called(threadId, op) ==
    {c \in lastCall : c.thread_id # threadId}
        \cup {[thread_id |-> threadId, op |-> op,
               again |-> \E c \in lastCall : c.thread_id = threadId /\ c.op = op]}

isSubscribed(threadId) ==
    /\ LET row == SelectSubscription(chat_subscriptions, threadId)
       IN  ret' = Ret("isSubscribed", threadId, row # {}, 0, 0, JSNull)
    /\ UNCHANGED <<now, lockVars, cacheVars, subsVars, dbVars, taskVars>>

subscribe(threadId) ==
    /\ chat_subscriptions' =
           SubsInsertOrReplace(chat_subscriptions,
               [thread_id |-> threadId, subscribed_at |-> now])
    /\ lastCall' = Called(threadId, "subscribe")
    /\ ret' = Ret("subscribe", threadId, TRUE, 0, 0, JSNull)
    /\ UNCHANGED <<now, lockVars, cacheVars, dbVars, taskVars>>

unsubscribe(threadId) ==
    /\ chat_subscriptions' = SubsDelete(chat_subscriptions, threadId)
    /\ lastCall' = Called(threadId, "unsubscribe")
    /\ ret' = Ret("unsubscribe", threadId, TRUE, 0, 0, JSNull)
    /\ UNCHANGED <<now, lockVars, cacheVars, dbVars, taskVars>>

SubsNext ==
    \/ \E r \in Resources : isSubscribed(r)
    \/ \E r \in Resources : subscribe(r)
    \/ \E r \in Resources : unsubscribe(r)

\* The subscription table alone.
SpecSubs == Init /\ [][Tick \/ SubsNext]_vars

(***************************************************************************)
(* Part 2: the task store (state/tasks.ts) over the tables scheduled_tasks *)
(* and task_runs.  Every function is synchronous: one call, one step.      *)
(***************************************************************************)
TaskIds == {"task-1", "task-2"}
RunIds == {"run-1", "run-2"}

\* Cron expressions: three that parse, and two that do not.
EveryMinute == "* * * * *"
EveryOther == "*/2 * * * *"
Daily == "0 8 * * *"
ValidCrons == {EveryMinute, EveryOther, Daily}
InvalidCrons == {"", "not a cron"}
Crons == ValidCrons \cup InvalidCrons

\* The row createTask inserts: enabled = 1, last_run_at left NULL.
NewTask(id, name, cron, prompt, delivery, nextRunAt, t) ==
    [id |-> id, name |-> name, cron |-> cron, prompt |-> prompt,
     delivery |-> delivery, enabled |-> 1, last_run_at |-> NULL,
     next_run_at |-> nextRunAt, created_at |-> t, updated_at |-> t]

\* SELECT * FROM scheduled_tasks WHERE id = ?
SelectTask(table, id) == {r \in table : r.id = id}

\* SELECT * FROM task_runs WHERE id = ? / WHERE task_id = ?
SelectRun(table, id) == {r \in table : r.id = id}
RunsOf(table, taskId) == {r \in table : r.task_id = taskId}

\* A partial update is the function from the fields it carries to their
\* values. The SET list updateTask builds: one assignment per field that is
\* not undefined.
Updatable == {"name", "cron", "prompt", "delivery", "enabled", "next_run_at"}

Fields_NameOnly(updates) == DOMAIN updates \cap {"name"}

Fields(updates) == DOMAIN updates \cap Updatable

\* UPDATE scheduled_tasks SET <fields>, updated_at = ? on one row.
SetFields(row, updates, t) ==
    [f \in DOMAIN row |->
        IF f \in Fields(updates) THEN updates[f]
        ELSE IF f = "updated_at" THEN t
        ELSE row[f]]

\* DELETE FROM scheduled_tasks WHERE id = ?
DeleteTaskRow(table, id) == {r \in table : r.id # id}

\* FOREIGN KEY (task_id) REFERENCES scheduled_tasks(id) ON DELETE CASCADE,
\* with PRAGMA foreign_keys = ON.
CascadeDelete_Off(runs, taskId) == runs

CascadeDelete(runs, taskId) == {r \in runs : r.task_id # taskId}

\* The foreign key on INSERT INTO task_runs.
ForeignKeyHolds_Off(tasks, taskId) == TRUE

ForeignKeyHolds(tasks, taskId) == SelectTask(tasks, taskId) # {}

\* WHERE enabled = 1 AND next_run_at IS NOT NULL AND next_run_at <= ?
Due_IgnoringEnabled(row, t) ==
    row.next_run_at # NULL /\ row.next_run_at <= t

Due(row, t) ==
    row.enabled = 1 /\ row.next_run_at # NULL /\ row.next_run_at <= t

\* The orders in which a query may return the rows of S.
Orderings(S) ==
    {f \in [1..Cardinality(S) -> S] :
        \A i, j \in 1..Cardinality(S) : i # j => f[i] # f[j]}

\* ORDER BY started_at DESC: rows that started together come in any order.
ByStartDesc_Unordered(S) == Orderings(S)

ByStartDesc(S) ==
    {f \in Orderings(S) :
        \A i, j \in 1..Cardinality(S) :
            i < j => f[i].started_at >= f[j].started_at}

\* LIMIT ?: a negative limit is no limit.
Limit(rows, limit) ==
    IF limit < 0 \/ limit >= Len(rows) THEN rows ELSE SubSeq(rows, 1, limit)

createTask(id, name, cron, prompt, delivery, nextRunAt) ==
    /\ IF SelectTask(scheduled_tasks, id) # {}
       THEN \* PRIMARY KEY: the INSERT throws
            /\ UNCHANGED scheduled_tasks
            /\ ret' = Ret("createTask", id, FALSE, 0, 0, JSNull)
       ELSE /\ scheduled_tasks' = scheduled_tasks \cup
                    {NewTask(id, name, cron, prompt, delivery, nextRunAt, now)}
            /\ ret' = Ret("createTask", id, TRUE, 0, 0, JSNull)
    /\ out' = <<>>
    /\ UNCHANGED <<now, lockVars, cacheVars, subsVars, dbVars, task_runs, schedVars>>

\* updateTask on the table: nothing when the update carries no field.
UpdateRows(table, id, updates, t) ==
    IF Fields(updates) = {} THEN table
    ELSE {IF r.id = id THEN SetFields(r, updates, t) ELSE r : r \in table}

updateTask(id, updates) ==
    /\ scheduled_tasks' = UpdateRows(scheduled_tasks, id, updates, now)
    /\ ret' = Ret("updateTask", id, TRUE, 0, 0, JSNull)
    /\ out' = <<>>
    /\ UNCHANGED <<now, lockVars, cacheVars, subsVars, dbVars, task_runs, schedVars>>

deleteTask(id) ==
    /\ scheduled_tasks' = DeleteTaskRow(scheduled_tasks, id)
    /\ task_runs' = IF SelectTask(scheduled_tasks, id) # {}
                    THEN CascadeDelete(task_runs, id) ELSE task_runs
    \* value: how many runs the task had when it was deleted
    /\ ret' = Ret("deleteTask", id, TRUE, 0, 0,
                  Cardinality(RunsOf(task_runs, id)))
    /\ out' = <<>>
    /\ UNCHANGED <<now, lockVars, cacheVars, subsVars, dbVars, schedVars>>

\* UPDATE scheduled_tasks SET last_run_at, next_run_at, updated_at.
MarkRun(table, taskId, lastRunAt, nextRunAt, t) ==
    {IF r.id = taskId
     THEN [r EXCEPT !.last_run_at = lastRunAt, !.next_run_at = nextRunAt,
                    !.updated_at = t]
     ELSE r : r \in table}

markTaskRun(taskId, lastRunAt, nextRunAt) ==
    /\ scheduled_tasks' = MarkRun(scheduled_tasks, taskId, lastRunAt, nextRunAt, now)
    /\ ret' = Ret("markTaskRun", taskId, TRUE, 0, 0, JSNull)
    /\ out' = <<>>
    /\ UNCHANGED <<now, lockVars, cacheVars, subsVars, dbVars, task_runs, schedVars>>

getDueTasks(t) ==
    /\ \E rows \in Orderings({r \in scheduled_tasks : Due(r, t)}) : out' = rows
    /\ ret' = Ret("getDueTasks", "", TRUE, 0, 0, t)
    /\ UNCHANGED <<now, lockVars, cacheVars, subsVars, dbVars, storeVars, schedVars>>

\* The row createTaskRun inserts: result and finished_at left NULL.
NewRun_Finished(id, taskId, t) ==
    [id |-> id, task_id |-> taskId, status |-> "running", result |-> JSNull,
     started_at |-> t, finished_at |-> t]

NewRun(id, taskId, t) ==
    [id |-> id, task_id |-> taskId, status |-> "running", result |-> JSNull,
     started_at |-> t, finished_at |-> NULL]

createTaskRun(id, taskId) ==
    /\ IF SelectRun(task_runs, id) # {} \/ ~ForeignKeyHolds(scheduled_tasks, taskId)
       THEN \* PRIMARY KEY or FOREIGN KEY: the INSERT throws
            /\ UNCHANGED task_runs
            /\ ret' = Ret("createTaskRun", id, FALSE, 0, 0, taskId)
       ELSE /\ task_runs' = task_runs \cup {NewRun(id, taskId, now)}
            /\ ret' = Ret("createTaskRun", id, TRUE, 0, 0, taskId)
    /\ out' = <<>>
    /\ UNCHANGED <<now, lockVars, cacheVars, subsVars, dbVars, scheduled_tasks, schedVars>>

\* UPDATE task_runs SET status = ?, result = ?, finished_at = ? WHERE id = ?
CompleteRun_EveryRow(table, id, status, result, t) ==
    {[r EXCEPT !.status = status, !.result = result, !.finished_at = t] :
        r \in table}

\* As INSERT OR REPLACE: a run that is not stored would be stored again.
CompleteRun_Upsert(table, id, status, result, t) ==
    {r \in table : r.id # id}
        \cup {[IF SelectRun(table, id) = {} THEN NewRun(id, "", t)
               ELSE CHOOSE r \in SelectRun(table, id) : TRUE
               EXCEPT !.status = status, !.result = result, !.finished_at = t]}

CompleteRun(table, id, status, result, t) ==
    {IF r.id = id
     THEN [r EXCEPT !.status = status, !.result = result, !.finished_at = t]
     ELSE r : r \in table}

completeTaskRun(id, status, result) ==
    /\ task_runs' = CompleteRun(task_runs, id, status, result, now)
    /\ ret' = Ret("completeTaskRun", id, TRUE, 0, 0, status)
    /\ out' = <<>>
    /\ UNCHANGED <<now, lockVars, cacheVars, subsVars, dbVars, scheduled_tasks, schedVars>>

getTaskRuns(taskId, limit) ==
    /\ \E rows \in ByStartDesc(RunsOf(task_runs, taskId)) :
           out' = Limit(rows, limit)
    /\ ret' = Ret("getTaskRuns", taskId, TRUE, 0, 0, limit)
    /\ UNCHANGED <<now, lockVars, cacheVars, subsVars, dbVars, storeVars, schedVars>>

\* ------------------------------------------------------ task store inputs
\* The partial updates: no field, every single field, two mixed choices of
\* fields and all the updatable fields, each field with a value other than
\* the one createTask stored; and the two updates that switch a task on
\* again and clear its next run.
FullUpdate ==
    [name |-> "name-2", cron |-> EveryOther, prompt |-> "prompt-2",
     delivery |-> "{\"type\":\"slack\"}", enabled |-> 0, next_run_at |-> 2]
Partials ==
    {[f \in D |-> FullUpdate[f]] :
        D \in {E \in SUBSET Updatable : Cardinality(E) <= 1}
               \cup {{"name", "enabled"}, {"cron", "prompt", "delivery"},
                     Updatable}}
Switches == {[f \in {"enabled"} |-> 1], [f \in {"next_run_at"} |-> NULL]}

Limits == (0 - 1)..2

NewTaskNext(nextRuns) ==
    \E id \in TaskIds, next \in nextRuns :
        createTask(id, "name-1", EveryMinute, "prompt-1", "{}", next)

\* Partial updates. Task ids are interchangeable in every statement of the
\* store, so the updates with every choice of fields go to task-1 and
\* task-2 is the other task.
UpdateNext ==
    \/ NewTaskNext({NULL})
    \/ \E u \in Partials \cup Switches : updateTask("task-1", u)
    \/ \E id \in TaskIds : deleteTask(id)

SpecUpdate == Init /\ [][Tick \/ UpdateNext]_vars

\* Due tasks: both tasks are created with or without a next run, switched
\* off and on, marked as run, and deleted.
DueNext ==
    \/ NewTaskNext({NULL, 2})
    \/ \E id \in TaskIds, u \in Switches \cup {[f \in {"enabled"} |-> 0]} :
           updateTask(id, u)
    \/ \E id \in TaskIds : deleteTask(id)
    \/ \E id \in TaskIds : markTaskRun(id, 1, 3)
    \/ \E t \in 2..3 : getDueTasks(t)

SpecDue == Init /\ [][Tick \/ DueNext]_vars

\* The run table, over tasks that are created and deleted only.
RunsNext ==
    \/ NewTaskNext({NULL})
    \/ \E id \in TaskIds : deleteTask(id)
    \/ \E r \in RunIds, id \in TaskIds : createTaskRun(r, id)
    \/ \E r \in RunIds, st \in {"success", "error"} : completeTaskRun(r, st, "done")
    \/ \E id \in TaskIds, limit \in Limits : getTaskRuns(id, limit)

SpecRuns == Init /\ [][Tick \/ RunsNext]_vars

(***************************************************************************)
(* Part 3: TaskScheduler (scheduler.ts) and the task tools                 *)
(* (skills/built-in/tasks.ts).  start, stop, reload and remove are         *)
(* synchronous; the execute functions of create_task, update_task and      *)
(* delete_task are async without an await: each call is one step.          *)
(* A Cron object is [task_id, cron, armed_at, prompt, delivery, next]: the  *)
(* task and pattern it was created for and when, the prompt and delivery   *)
(* of the task row its callback captured, and the minute of its pending    *)
(* fire.  Time is counted in minutes.                                      *)
(***************************************************************************)
\* new Cron(pattern) returns; it throws a pattern it cannot parse.
Parses_Anything(cron) == TRUE

Parses(cron) == cron \in ValidCrons

\* cron.nextRun(): the first minute after t the pattern matches.
NextRun(cron, t) ==
    IF cron = Daily
    THEN LET day == 24 * 60
             at == 8 * 60
             midnight == t - (t % day)
         IN  IF t % day < at THEN midnight + at ELSE midnight + day + at
    ELSE IF cron = EveryOther /\ t % 2 = 0 THEN t + 2 ELSE t + 1

\* The zone of the process, in minutes east of UTC: the code does not set
\* it, it is UTC or another zone (here UTC+1) depending on where it runs.
LocalOffsets == {0, 60}

\* new Cron(pattern).nextRun(), without the timezone option: the pattern is
\* matched against the local clock.
NextRunLocal_AsUTC(cron, t, offset) == NextRun(cron, t)

NextRunLocal(cron, t, offset) == NextRun(cron, t + offset) - offset

\* `if (cron)`: a string is truthy unless it is empty.
TruthyString(str) == str # ""

\* this.crons.get(taskId)
CronOf(map, taskId) == {c \in map : c.task_id = taskId}

\* The Cron objects of a task among the armed ones.
Armed(live, taskId) == {c \in live : c.task_id = taskId}

\* The scheduler's state and the task table, as one value.
Sched(tasks, map, live) == [tasks |-> tasks, crons |-> map, timers |-> live]

\* existing.stop(); this.crons.delete(taskId)
StopCron_KeepTimer(S, taskId) ==
    Sched(S.tasks, S.crons \ CronOf(S.crons, taskId), S.timers)

StopCron(S, taskId) ==
    Sched(S.tasks, S.crons \ CronOf(S.crons, taskId),
          S.timers \ CronOf(S.crons, taskId))

\* scheduleTask(task) at time t: a pattern that does not parse is logged and
\* skipped; otherwise the Cron is armed, the next run stored and the Cron
\* put in the map under the task's id.
ScheduleTask(S, task, t) ==
    IF ~Parses(task.cron) THEN S
    ELSE LET cron == [task_id |-> task.id, cron |-> task.cron, armed_at |-> t,
                      prompt |-> task.prompt, delivery |-> task.delivery,
                      next |-> NextRun(task.cron, t)]
         IN  Sched(MarkRun(S.tasks, task.id,
                           IF task.last_run_at = NULL THEN 0 ELSE task.last_run_at,
                           NextRun(task.cron, t), t),
                   (S.crons \ CronOf(S.crons, task.id)) \cup {cron},
                   S.timers \cup {cron})

\* reload(taskId) with this.running = run.
Reload_WhileStopped(S, taskId, run, t) ==
    LET stopped == StopCron(S, taskId)
        task == SelectTask(stopped.tasks, taskId)
    IN  IF task = {} THEN stopped
        ELSE LET row == CHOOSE r \in task : TRUE
             IN  IF row.enabled = 0 THEN stopped
                 ELSE ScheduleTask(stopped, row, t)

Reload(S, taskId, run, t) ==
    LET stopped == StopCron(S, taskId)
        task == SelectTask(stopped.tasks, taskId)
    IN  IF task = {} \/ ~run THEN stopped
        ELSE LET row == CHOOSE r \in task : TRUE
             IN  IF row.enabled = 0 THEN stopped
                 ELSE ScheduleTask(stopped, row, t)

\* The loop of start() if scheduleTask let the parse error out, with the
\* task it cannot parse coming first: the call ends there.
RECURSIVE ScheduleAll_Throwing(_, _, _)
ScheduleAll_Throwing(S, rows, t) ==
    IF rows = {} \/ \E r \in rows : r.enabled # 0 /\ ~Parses(r.cron) THEN S
    ELSE LET task == CHOOSE r \in rows : TRUE
         IN  ScheduleAll_Throwing(
                 IF task.enabled # 0 THEN ScheduleTask(S, task, t) ELSE S,
                 rows \ {task}, t)

\* The loop of start() over the rows listTasks returned.
RECURSIVE ScheduleAll(_, _, _)
ScheduleAll(S, rows, t) ==
    IF rows = {} THEN S
    ELSE LET task == CHOOSE r \in rows : TRUE
         IN  ScheduleAll(IF task.enabled # 0 THEN ScheduleTask(S, task, t) ELSE S,
                         rows \ {task}, t)

\* `if (this.running) return;`
AlreadyRunning_Ignored(run) == FALSE

AlreadyRunning(run) == run

Becomes(S) ==
    /\ scheduled_tasks' = S.tasks
    /\ crons' = S.crons
    /\ timers' = S.timers

Current == Sched(scheduled_tasks, crons, timers)

start ==
    /\ IF AlreadyRunning(running)
       THEN UNCHANGED <<scheduled_tasks, crons, timers, running>>
       ELSE /\ running' = TRUE
            /\ Becomes(ScheduleAll(Current, scheduled_tasks, now))
    /\ ret' = Ret("start", "", running, 0, 0, JSNull)
    /\ out' = <<>>
    /\ UNCHANGED <<now, lockVars, cacheVars, subsVars, dbVars, inflight, task_runs>>

stop ==
    /\ running' = FALSE
    /\ timers' = timers \ crons
    /\ crons' = {}
    /\ ret' = Ret("stop", "", TRUE, 0, 0, JSNull)
    /\ out' = <<>>
    /\ UNCHANGED <<now, lockVars, cacheVars, subsVars, dbVars, inflight, storeVars>>

reload(taskId) ==
    /\ Becomes(Reload(Current, taskId, running, now))
    /\ ret' = Ret("reload", taskId, TRUE, 0, 0, JSNull)
    /\ out' = <<>>
    /\ UNCHANGED <<now, lockVars, cacheVars, subsVars, dbVars, inflight, task_runs, running>>

remove(taskId) ==
    /\ Becomes(StopCron(Current, taskId))
    /\ ret' = Ret("remove", taskId, TRUE, 0, 0, JSNull)
    /\ out' = <<>>
    /\ UNCHANGED <<now, lockVars, cacheVars, subsVars, dbVars, inflight, task_runs, running>>

\* ------------------------------------------------------------ task tools
\* JS undefined, for an argument a tool call does not carry.
UNDEF == "<undefined>"

\* create_task: id is the randomUUIDv7() of the call, an id no task has.
create_task(id, name, cron, prompt, delivery) ==
    /\ SelectTask(scheduled_tasks, id) = {}
    /\ IF ~Parses(cron)
       THEN /\ UNCHANGED <<scheduled_tasks, crons, timers>>
            /\ ret' = Ret("create_task", id, FALSE, 0, 0, cron)
       ELSE /\ \E offset \in LocalOffsets :
                   Becomes(Reload(
                       Sched(scheduled_tasks \cup
                                 {NewTask(id, name, cron, prompt, delivery,
                                          NextRunLocal(cron, now, offset), now)},
                             crons, timers),
                       id, running, now))
            /\ ret' = Ret("create_task", id, TRUE, 0, 0, cron)
    /\ out' = <<>>
    /\ UNCHANGED <<now, lockVars, cacheVars, subsVars, dbVars, inflight, task_runs, running>>

\* The partial update update_task hands to updateTask: enabled as 1 or 0.
ToUpdates(args) ==
    [f \in DOMAIN args |->
        IF f = "enabled" THEN (IF args[f] THEN 1 ELSE 0) ELSE args[f]]

\* update_task: args is the function from the arguments the call carries
\* (other than id) to their values.
update_task(id, args) ==
    /\ IF SelectTask(scheduled_tasks, id) = {}
       THEN /\ UNCHANGED <<scheduled_tasks, crons, timers>>
            /\ ret' = Ret("update_task", id, FALSE, 0, 0, UNDEF)
       ELSE IF "cron" \in DOMAIN args /\ TruthyString(args.cron) /\ ~Parses(args.cron)
       THEN /\ UNCHANGED <<scheduled_tasks, crons, timers>>
            /\ ret' = Ret("update_task", id, FALSE, 0, 0, args.cron)
       ELSE /\ Becomes(Reload(
                    Sched(UpdateRows(scheduled_tasks, id, ToUpdates(args), now),
                          crons, timers),
                    id, running, now))
            /\ ret' = Ret("update_task", id, TRUE, 0, 0,
                          IF "cron" \in DOMAIN args THEN args.cron ELSE UNDEF)
    /\ out' = <<>>
    /\ UNCHANGED <<now, lockVars, cacheVars, subsVars, dbVars, inflight, task_runs, running>>

delete_task(id) ==
    /\ IF SelectTask(scheduled_tasks, id) = {}
       THEN /\ UNCHANGED <<scheduled_tasks, task_runs, crons, timers>>
            /\ ret' = Ret("delete_task", id, FALSE, 0, 0, JSNull)
       ELSE /\ LET S == StopCron(Current, id)
               IN  /\ scheduled_tasks' = DeleteTaskRow(S.tasks, id)
                   /\ crons' = S.crons
                   /\ timers' = S.timers
            /\ task_runs' = CascadeDelete(task_runs, id)
            /\ ret' = Ret("delete_task", id, TRUE, 0, 0, JSNull)
    /\ out' = <<>>
    /\ UNCHANGED <<now, lockVars, cacheVars, subsVars, dbVars, inflight, running>>

\* The arguments of update_task: a cron, or enabled.
CronUpdates == {[f \in {"cron"} |-> c] : c \in {EveryOther} \cup InvalidCrons}
EnabledUpdates == {[f \in {"enabled"} |-> e] : e \in BOOLEAN}

\* Task ids are interchangeable in the tools and the scheduler: task-1 is
\* the task whose cron is updated, task-2 the other task.
SchedNext ==
    \/ \E id \in TaskIds, cron \in {EveryMinute, ""} :
           create_task(id, "name-1", cron, "prompt-1", "{}")
    \/ \E args \in CronUpdates : update_task("task-1", args)
    \/ \E id \in TaskIds, args \in EnabledUpdates : update_task(id, args)
    \/ \E id \in TaskIds : delete_task(id)
    \/ start
    \/ stop
    \/ \E id \in TaskIds : reload(id)
    \/ \E id \in TaskIds : remove(id)

SpecSched == Init /\ [][Tick \/ SchedNext]_vars

(***************************************************************************)
(* Part 4: executions (TaskScheduler.executeTask).  executeTask runs up to *)
(* `await this.agent.generate(...)` in the step that starts it (a timer    *)
(* fire or runNow) and from there to its return in a later step, finish,   *)
(* taken when the agent's promise settles; any other call can run between  *)
(* the two.  An execution in flight is [run_id, task_id, started_at,       *)
(* prompt, via].  A timer fires in the minute of its pending fire: time    *)
(* does not pass over a fire that is due.                                  *)
(***************************************************************************)
\* What the agent's promise settles with: a text, or an Error thrown.
Outcomes == {[ok |-> TRUE, text |-> "done"], [ok |-> FALSE, text |-> "boom"]}

\* Delivery texts: the default of create_task, a config with a type (as is
\* and with spaces), a config without a type, the empty string and a text
\* that is not JSON.
NoDelivery == "{}"
SlackDelivery == "{\"type\":\"slack\"}"
SpacedDelivery == "{ \"type\": \"slack\" }"
ChannelDelivery == "{\"channel\":\"#general\"}"
Deliveries ==
    {NoDelivery, SlackDelivery, SpacedDelivery, ChannelDelivery, "", "not json"}

\* JSON.parse(task.delivery): the object as the function from its keys to
\* their values; throws is TRUE for a text that is not JSON.
ParseDelivery(text) ==
    IF text = NoDelivery
    THEN [throws |-> FALSE, object |-> <<>>]
    ELSE IF text \in {SlackDelivery, SpacedDelivery}
    THEN [throws |-> FALSE, object |-> [k \in {"type"} |-> "slack"]]
    ELSE IF text = ChannelDelivery
    THEN [throws |-> FALSE, object |-> [k \in {"channel"} |-> "#general"]]
    ELSE [throws |-> TRUE, object |-> <<>>]

\* JSON.stringify of a parsed delivery: no spaces.
StringifyDelivery(object) ==
    IF DOMAIN object = {} THEN NoDelivery
    ELSE IF "type" \in DOMAIN object THEN SlackDelivery
    ELSE ChannelDelivery

\* `if (delivery.type)`
HasType(object) == "type" \in DOMAIN object /\ TruthyString(object["type"])

InstructionHead ==
    "\n\nAfter completing the task, deliver the result using the deliver_message tool to: "

\* deliveryInstruction: empty unless the delivery parses and has a type.
DeliveryInstruction(delivery) ==
    LET parsed == ParseDelivery(delivery)
    IN  IF ~parsed.throws /\ HasType(parsed.object)
        THEN InstructionHead \o StringifyDelivery(parsed.object)
        ELSE ""

\* The prompt sent to the agent: the task's prompt and the instruction.
FullPrompt(prompt, delivery) == prompt \o DeliveryInstruction(delivery)

\* randomUUIDv7(): a run id that no run and no execution has.
UnusedRunIds ==
    {r \in RunIds : SelectRun(task_runs, r) = {}
                    /\ \A e \in inflight : e.run_id # r}

\* executeTask(task) up to the await, for the task row captured by the
\* caller: createTaskRun is outside the try, so when it throws the call
\* rejects before anything is in flight.
Begin(taskId, prompt, delivery, via) ==
    /\ UnusedRunIds # {}
    /\ LET runId == CHOOSE r \in UnusedRunIds : TRUE
       IN  IF ~ForeignKeyHolds(scheduled_tasks, taskId)
           THEN UNCHANGED <<task_runs, inflight>>
           ELSE /\ task_runs' = task_runs \cup {NewRun(runId, taskId, now)}
                /\ inflight' = inflight \cup
                       {[run_id |-> runId, task_id |-> taskId,
                         started_at |-> now,
                         prompt |-> FullPrompt(prompt, delivery), via |-> via]}

\* A timer of task taskId goes off: croner plans the Cron's next fire and
\* calls the callback, executeTask(task).catch(log).
fire(taskId) ==
    /\ \E c \in Armed(timers, taskId) :
           /\ c.next = now
           /\ LET again == [c EXCEPT !.next = NextRun(c.cron, now)]
              IN  /\ timers' = (timers \ {c}) \cup {again}
                  /\ crons' = IF c \in crons THEN (crons \ {c}) \cup {again}
                              ELSE crons
           /\ Begin(c.task_id, c.prompt, c.delivery, "timer")
    /\ ret' = Ret("fire", taskId, TRUE, 0, 0, JSNull)
    /\ out' = <<>>
    /\ UNCHANGED <<now, lockVars, cacheVars, subsVars, dbVars, scheduled_tasks, running>>

\* The message of the not-found error and result.
NotFound(taskId) == "Task " \o taskId \o " not found"

\* How a call ends when it does not return a text: the promise it returned
\* rejects with an Error, or it resolves to the object { error }.
Thrown(message) == [threw |-> TRUE, error |-> message]
Returned_Error(message) == [threw |-> FALSE, error |-> message]

runNow(taskId) ==
    /\ LET task == SelectTask(scheduled_tasks, taskId)
       IN  IF task = {}
           THEN \* throw new Error(`Task ${taskId} not found`)
                /\ UNCHANGED <<task_runs, inflight>>
                /\ ret' = Ret("runNow", taskId, FALSE, 0, 0,
                              Thrown(NotFound(taskId)))
           ELSE /\ LET row == CHOOSE r \in task : TRUE
                   IN  Begin(taskId, row.prompt, row.delivery, "runNow")
                /\ ret' = Ret("runNow", taskId, TRUE, 0, 0, JSNull)
    /\ out' = <<>>
    /\ UNCHANGED <<now, lockVars, cacheVars, subsVars, dbVars, scheduled_tasks,
                   running, crons, timers>>

\* The run_task_now tool with a scheduler present: it awaits runNow and
\* turns what runNow throws into the result { error: message }.
run_task_now(id) ==
    /\ LET task == SelectTask(scheduled_tasks, id)
       IN  IF task = {}
           THEN /\ UNCHANGED <<task_runs, inflight>>
                /\ ret' = Ret("run_task_now", id, FALSE, 0, 0,
                              Returned_Error(NotFound(id)))
           ELSE /\ LET row == CHOOSE r \in task : TRUE
                   IN  Begin(id, row.prompt, row.delivery, "runNow")
                /\ ret' = Ret("run_task_now", id, TRUE, 0, 0, JSNull)
    /\ out' = <<>>
    /\ UNCHANGED <<now, lockVars, cacheVars, subsVars, dbVars, scheduled_tasks,
                   running, crons, timers>>

\* getTask(db, id): the row, or null.
getTask(id) ==
    /\ ret' = Ret("getTask", id, SelectTask(scheduled_tasks, id) # {}, 0, 0,
                  SelectTask(scheduled_tasks, id))
    /\ out' = <<>>
    /\ UNCHANGED <<now, lockVars, cacheVars, subsVars, dbVars, storeVars, schedVars>>

\* The status and result executeTask records for an outcome of the agent.
Completion_AlwaysSuccess(outcome) ==
    [status |-> "success", result |-> outcome.text]

Completion_StillRunning(outcome) ==
    [status |-> "running", result |-> outcome.text]

Completion(outcome) ==
    [status |-> IF outcome.ok THEN "success" ELSE "error",
     result |-> outcome.text]

\* `const cron = this.crons.get(task.id); if (cron) markTaskRun(...)`
MarkFinished_Everyone(tasks, map, e, t) ==
    {IF \E c \in map : c.task_id = e.task_id
     THEN [r EXCEPT !.last_run_at = e.started_at, !.updated_at = t]
     ELSE r : r \in tasks}

MarkFinished_WithoutCron(tasks, map, e, t) ==
    IF CronOf(map, e.task_id) = {}
    THEN MarkRun(tasks, e.task_id, e.started_at, NULL, t)
    ELSE LET cron == CHOOSE c \in CronOf(map, e.task_id) : TRUE
         IN  MarkRun(tasks, e.task_id, e.started_at, cron.next, t)

MarkFinished(tasks, map, e, t) ==
    IF CronOf(map, e.task_id) = {} THEN tasks
    ELSE LET cron == CHOOSE c \in CronOf(map, e.task_id) : TRUE
         IN  MarkRun(tasks, e.task_id, e.started_at, cron.next, t)

\* executeTask from the await to its return, for the execution of run
\* runId whose agent call settled with outcome: both branches complete the
\* run, mark the task when it has a Cron in the map, and return the text.
finish(runId, outcome) ==
    /\ \E e \in inflight :
           /\ e.run_id = runId
           /\ LET done == Completion(outcome)
              IN  task_runs' = CompleteRun(task_runs, e.run_id, done.status,
                                           done.result, now)
           /\ scheduled_tasks' = MarkFinished(scheduled_tasks, crons, e, now)
           /\ inflight' = inflight \ {e}
           /\ ret' = Ret("finish", e.task_id, outcome.ok, 0, 0,
                         [e |-> e, returned |-> outcome.text, threw |-> FALSE])
    /\ out' = <<>>
    /\ UNCHANGED <<now, lockVars, cacheVars, subsVars, dbVars, running, crons, timers>>

\* Time passes when no timer is due.
ExecTick ==
    /\ \A c \in timers : c.next > now
    /\ Tick

\* Everything that can happen to one task and its executions.
ExecNext ==
    \/ create_task("task-1", "name-1", EveryMinute, "prompt-1", "{}")
    \/ \E args \in EnabledUpdates : update_task("task-1", args)
    \/ delete_task("task-1")
    \/ start
    \/ stop
    \/ remove("task-1")
    \/ fire("task-1")
    \/ runNow("task-1")
    \/ \E r \in RunIds, outcome \in Outcomes : finish(r, outcome)

SpecExec == Init /\ [][ExecTick \/ ExecNext]_vars

\* Two tasks with a timer each, and their executions side by side.
PairNext ==
    \/ \E id \in TaskIds : create_task(id, "name-1", EveryMinute, "prompt-1", "{}")
    \/ start
    \/ \E id \in TaskIds : fire(id)
    \/ \E id \in TaskIds : runNow(id)
    \/ \E r \in RunIds, outcome \in Outcomes : finish(r, outcome)

SpecPair == Init /\ [][ExecTick \/ PairNext]_vars

\* One task whose executions are in flight while the scheduler is stopped
\* and started, its timer reloaded and removed, and the task deleted.  The
\* continuation of executeTask after the await runs once the agent's
\* promise has settled: finish is weakly fair for every run.
LiveNext ==
    \/ create_task("task-1", "name-1", EveryMinute, "prompt-1", "{}")
    \/ delete_task("task-1")
    \/ start
    \/ stop
    \/ reload("task-1")
    \/ remove("task-1")
    \/ fire("task-1")
    \/ runNow("task-1")
    \/ \E r \in RunIds, outcome \in Outcomes : finish(r, outcome)

Settles(r) == \E outcome \in Outcomes : finish(r, outcome)

SpecLive ==
    /\ Init /\ [][ExecTick \/ LiveNext]_vars
    /\ \A r \in RunIds : WF_vars(Settles(r))

\* Calls that name a task that is stored (task-1, once created) and a task
\* that is not (task-2, never created), around a running scheduler.
LookupNext ==
    \/ create_task("task-1", "name-1", EveryMinute, "prompt-1", "{}")
    \/ start
    \/ \E id \in TaskIds : getTask(id)
    \/ \E id \in TaskIds, args \in EnabledUpdates : update_task(id, args)
    \/ \E id \in TaskIds : delete_task(id)
    \/ \E id \in TaskIds : runNow(id)
    \/ \E id \in TaskIds : run_task_now(id)
    \/ \E r \in RunIds, outcome \in Outcomes : finish(r, outcome)

SpecLookup == Init /\ [][ExecTick \/ LookupNext]_vars

\* Tasks created with a scheduler that is running or not, in a process
\* whose zone is UTC or not.
CreateNext ==
    \/ \E id \in TaskIds, cron \in {Daily, EveryMinute} :
           create_task(id, "name-1", cron, "prompt-1", "{}")
    \/ \E id \in TaskIds : delete_task(id)
    \/ start
    \/ stop

SpecCreate == Init /\ [][Tick \/ CreateNext]_vars

\* initDatabase(path): a file path opens the file, creating it when it is
\* not there; ":memory:" opens a new empty database of its own.  It fails
\* nowhere: every statement is IF NOT EXISTS.  It returns the database.
initDatabase(path) ==
    /\ LET opened == IF path = MemoryPath THEN EmptyDatabase ELSE db_file
           db == Initialized(opened, path)
       IN  /\ db_file' = IF path = MemoryPath THEN db_file ELSE db
           /\ ret' = Ret("initDatabase", path, TRUE, 0, 0, db)
    /\ UNCHANGED <<now, lockVars, cacheVars, subsVars, taskVars>>

\* The tables can be used once the file has them.
HasTables == db_file.master # <<>>

\* The database opened any number of times, with rows written in between.
DbNext ==
    \/ \E path \in Paths : initDatabase(path)
    \/ HasTables /\ \E r \in Resources : subscribe(r)
    \/ HasTables /\ createTask("task-1", "name-1", EveryMinute, "prompt-1", "{}", NULL)
    \/ HasTables /\ createTaskRun("run-1", "task-1")

SpecDb == InitNoFile /\ [][Tick \/ DbNext]_vars

\* The task tools alone, with a scheduler that is started and never
\* stopped: task-1 is the task whose cron is updated.
ToolsNext ==
    \/ start
    \/ \E id \in TaskIds, cron \in {EveryMinute, ""} :
           create_task(id, "name-1", cron, "prompt-1", "{}")
    \/ \E args \in CronUpdates : update_task("task-1", args)
    \/ \E id \in TaskIds, args \in EnabledUpdates : update_task(id, args)
    \/ \E id \in TaskIds : delete_task(id)

SpecTools == Init /\ [][Tick \/ ToolsNext]_vars

\* One task created with each delivery text, fired by its timer and run
\* by hand.
PromptNext ==
    \/ \E delivery \in Deliveries :
           create_task("task-1", "name-1", EveryMinute, "prompt-1", delivery)
    \/ delete_task("task-1")
    \/ start
    \/ fire("task-1")
    \/ runNow("task-1")
    \/ \E r \in RunIds, outcome \in Outcomes : finish(r, outcome)

SpecPrompt == Init /\ [][ExecTick \/ PromptNext]_vars

\* ================================================================ claims

\* The rows stored for a resource / a key.
LockRows(r) == SelectLock(chat_locks, r)
CacheRows(k) == SelectCache(chat_cache, k)

\* C1: lock mutual exclusion. Each resourceId has at most one stored lock, so
\* two different tokens are never both unexpired owners of one resource; and
\* acquireLock(R, ttl) returns a lock only if, at the moment of the call, no
\* lock for R with an expiry later than now was stored.
C1_AtMostOneLock ==
    \A r \in Resources :
        /\ Cardinality(LockRows(r)) <= 1
        /\ \A a, b \in LockRows(r) :
               (a.expires_at > now /\ b.expires_at > now) => a.token = b.token

C1_AcquireOnlyWhenFree ==
    (ret'.op = "acquireLock" /\ ret'.ok) =>
        /\ ~\E row \in LockRows(ret'.id) : row.expires_at > now
        /\ \A row \in SelectLock(chat_locks', ret'.id) : row.token = ret'.token

\* C1: at most one stored lock per resource in every state, and every
\* acquireLock that returns a lock found no unexpired lock stored.
C1_MutualExclusion == []C1_AtMostOneLock /\ [][C1_AcquireOnlyWhenFree]_vars

\* C1 witness: a resource that had a lock before has been acquired again, by a
\* second token, and is held by it.
C1_Witness ==
    /\ ret.op = "acquireLock" /\ ret.ok
    /\ \E l \in issued : l.thread_id = ret.id /\ l.token # ret.token
    /\ \E row \in LockRows(ret.id) : row.token = ret.token /\ row.expires_at > now

\* C2: acquireLock on a free resource returns a lock; a second acquireLock on
\* the same resource, with no release (or extension) in between and before the
\* ttl of the first has elapsed, returns null; once that ttl has elapsed the
\* next acquireLock returns a lock whose token differs from every token issued
\* for the resource before.
C2_AcquireStep ==
    ret'.op = "acquireLock" =>
        /\ LockRows(ret'.id) = {} => ret'.ok
        /\ \A h \in lastAcquire :
               h.thread_id = ret'.id =>
                   IF now < h.until
                   THEN ~ret'.ok /\ SelectLock(chat_locks', ret'.id) = LockRows(ret'.id)
                   ELSE /\ ret'.ok
                        /\ \A l \in issued : l.thread_id = ret'.id => l.token # ret'.token
                        /\ [thread_id |-> ret'.id, token |-> ret'.token] \in issued'

\* C2: every acquireLock step answers as the last acquireLock of the resource
\* and the time elapsed since dictate.
C2_AcquireTwice == [][C2_AcquireStep]_vars

\* C2 witness: the stale lock of a resource has been reclaimed under a new token.
C2_Witness ==
    /\ ret.op = "acquireLock" /\ ret.ok /\ now > 1
    /\ Cardinality({l \in issued : l.thread_id = ret.id}) >= 2
    /\ LockRows(ret.id) # {}

\* C3: extendLock(lock, ttl) returns true exactly when a row for lock.threadId
\* is stored and its token equals lock.token; when it returns false the
\* stored locks (token and expiry) are unchanged.
C3_ExtendStep ==
    ret'.op = "extendLock" =>
        /\ ret'.ok <=> (\E row \in LockRows(ret'.id) : row.token = ret'.token)
        /\ ~ret'.ok => chat_locks' = chat_locks

\* C3: every extendLock step returns true iff the presented token is the
\* stored one, and changes nothing when it returns false.
C3_ExtendIffTokenStored == [][C3_ExtendStep]_vars

\* C3 witness: an extension with a mismatched token was refused while a lock
\* of the resource is stored.
C3_Witness ==
    /\ ret.op = "extendLock" /\ ~ret.ok
    /\ \E row \in LockRows(ret.id) : row.token # ret.token

\* C4 as claimed: whenever extendLock(lock, ttl) returns true the stored expiry
\* becomes now+ttl and is not earlier than the expiry stored before the call.
C4_ExtendNeverShortens ==
    [][(ret'.op = "extendLock" /\ ret'.ok) =>
          \A old \in LockRows(ret'.id), new \in SelectLock(chat_locks', ret'.id) :
              new.expires_at = now + ret'.ttl /\ new.expires_at >= old.expires_at]_vars

\* C4 as amended: whenever extendLock(lock, ttl) returns true the resource
\* keeps exactly one stored lock, with the same token and the expiry now+ttl,
\* whatever the expiry stored before (a ttl shorter than the time remaining
\* moves the expiry earlier); the locks of other resources are unchanged.
C4_ExtendSetsExpiry ==
    [][(ret'.op = "extendLock" /\ ret'.ok) =>
          /\ SelectLock(chat_locks', ret'.id) =
                 {[thread_id |-> ret'.id, token |-> ret'.token,
                   expires_at |-> now + ret'.ttl]}
          /\ \A r \in Resources \ {ret'.id} :
                 SelectLock(chat_locks', r) = LockRows(r)]_vars

\* C4 witness: time has passed and the holder has extended its lock, which
\* now runs until a later instant.
C4_Witness ==
    /\ ret.op = "extendLock" /\ ret.ok /\ now > 1
    /\ \E row \in LockRows(ret.id) : row.token = ret.token /\ row.expires_at > now

\* C5: releaseLock(lock) removes the stored lock of lock.threadId exactly when
\* the stored token equals lock.token, leaving the resource free, and an
\* acquireLock on a free resource succeeds; with a mismatched token or an
\* already released lock it changes nothing.
C5_ReleaseStep ==
    /\ ret'.op = "releaseLock" =>
           IF \E row \in LockRows(ret'.id) : row.token = ret'.token
           THEN /\ SelectLock(chat_locks', ret'.id) = {}
                /\ \A r \in Resources \ {ret'.id} : SelectLock(chat_locks', r) = LockRows(r)
           ELSE chat_locks' = chat_locks
    /\ (ret'.op = "acquireLock" /\ LockRows(ret'.id) = {}) =>
           /\ ret'.ok
           /\ \E row \in SelectLock(chat_locks', ret'.id) : row.token = ret'.token

\* C5: every releaseLock step deletes the row iff the token matches, and
\* every acquireLock on a free resource succeeds.
C5_ReleaseOnlyByToken == [][C5_ReleaseStep]_vars

\* C5 witness: a release with the stored token has freed the resource.
C5_Witness ==
    /\ ret.op = "releaseLock" /\ ret.ok
    /\ LockRows(ret.id) = {}
    /\ \E l \in issued : l.thread_id = ret.id /\ l.token = ret.token

\* A Lock that was issued and whose row is no longer the stored one.
Stale(l) == l \in issued /\ ~\E row \in LockRows(l.thread_id) : row.token = l.token

\* C6: a stale holder cannot disturb the current holder. Once a lock L1 of R
\* is no longer the stored one it never becomes the stored one again, every
\* extendLock(L1) returns false, and extendLock(L1) and releaseLock(L1) leave
\* the stored locks, the current holder's token and expiry included, unchanged.
C6_StaleStep ==
    \A l \in issued :
        Stale(l) =>
            /\ ~\E row \in SelectLock(chat_locks', l.thread_id) : row.token = l.token
            /\ (ret'.op \in {"extendLock", "releaseLock"}
                  /\ ret'.id = l.thread_id /\ ret'.token = l.token)
                   => ~ret'.ok /\ chat_locks' = chat_locks

\* C6: in every step a stale lock stays stale, and extend/release with it
\* return false / delete nothing and change no stored lock.
C6_StaleHolderHarmless == [][C6_StaleStep]_vars

\* C6 witness: the holder of an expired and since replaced lock tried to
\* extend it while the new holder's lock is stored and unexpired.
C6_Witness ==
    /\ ret.op = "extendLock" /\ ~ret.ok
    /\ [thread_id |-> ret.id, token |-> ret.token] \in issued
    /\ \E row \in LockRows(ret.id) : row.token # ret.token /\ row.expires_at > now
    /\ now > 1

LockOps == {"acquireLock", "extendLock", "releaseLock"}
CacheOps == {"get", "set", "delete"}

\* Time passing alone changes no table: nothing sweeps in the background.
TickChangesNothing ==
    ret'.op = "tick" => chat_locks' = chat_locks /\ chat_cache' = chat_cache

\* A cache call on key X leaves the entry of every other key Y as it was.
CacheFrame ==
    \A y \in Keys :
        (ret'.op \in CacheOps /\ ret'.id # y) => SelectCache(chat_cache', y) = CacheRows(y)

\* C7 as claimed: expiry is passive and per key; no operation addressed to
\* key/resource X deletes or alters the stored entry of a different
\* key/resource Y.
C7_PerKeyExpiry ==
    [][/\ TickChangesNothing
       /\ CacheFrame
       /\ \A y \in Resources :
              (ret'.op \in LockOps /\ ret'.id # y) =>
                  SelectLock(chat_locks', y) = LockRows(y)]_vars

\* C7 as amended: expiry is passive (time passing alone removes nothing) and
\* per key for the cache; extendLock and releaseLock on X leave the lock of
\* every other resource Y as it was; acquireLock on X deletes the lock of Y
\* exactly when it has expired (expires_at < now) and otherwise leaves it as
\* it was.
C7_PassiveExpiry ==
    [][/\ TickChangesNothing
       /\ CacheFrame
       /\ \A y \in Resources :
              (ret'.op \in LockOps /\ ret'.id # y) =>
                  SelectLock(chat_locks', y) =
                      IF ret'.op = "acquireLock"
                      THEN {row \in LockRows(y) : row.expires_at >= now}
                      ELSE LockRows(y)]_vars

\* C7 witness: an acquireLock on one resource has swept the expired lock of
\* the other one (acquired, never extended or released, and gone).
C7_Witness ==
    /\ ret.op = "acquireLock"
    /\ \E h \in lastAcquire :
           h.thread_id # ret.id /\ h.until < now /\ LockRows(h.thread_id) = {}

\* C8 as claimed, for the values JSON represents: set(key, v, ttl) followed by
\* a get(key) at the same instant returns v, and a get(key) after ttl has
\* elapsed, with no set in between, returns absent.
C8_SetThenGet ==
    [][ret'.op = "get" =>
          \A h \in lastSet :
              (h.key = ret'.id /\ h.ttl # NULL /\ h.value # NaN) =>
                  /\ now = h.at => (ret'.ok /\ ret'.value = h.value)
                  /\ now > h.at + h.ttl => (~ret'.ok /\ ret'.value = JSNull)]_vars

\* C9: lazy expiry on read. get(key) never returns a value whose expiresAt is
\* earlier than now; finding such an entry it deletes that row (and no
\* other) and returns absent; an entry without expiresAt is returned and
\* never deleted by get.
C9_GetStep ==
    ret'.op = "get" =>
        \A row \in CacheRows(ret'.id) :
            /\ ret'.ok => (row.expires_at = NULL \/ row.expires_at >= now)
            /\ (row.expires_at # NULL /\ row.expires_at < now) =>
                   /\ ~ret'.ok /\ ret'.value = JSNull
                   /\ chat_cache' = chat_cache \ {row}
            /\ row.expires_at = NULL => (ret'.ok /\ chat_cache' = chat_cache)

\* C9: every get step deletes exactly the expired row it finds and never
\* returns it, and returns and keeps a row without expiry.
C9_LazyExpiry == [][C9_GetStep]_vars

\* C9 witness: a get after the ttl of the entry has found it expired and
\* deleted it, while the entry of the other key is still stored.
C9_Witness ==
    /\ ret.op = "get" /\ ~ret.ok
    /\ \E h \in lastSet :
           h.key = ret.id /\ Truthy(h.ttl) /\ now > h.at + h.ttl /\ CacheRows(h.key) = {}
    /\ \E k \in Keys \ {ret.id} : CacheRows(k) # {}

\* C10 as claimed, for the values JSON represents: set overwrites the expiry
\* too. After a set without ttl that overwrote an entry with an expiry, get
\* returns the new value at every later time; after a set with ttl that
\* overwrote an entry without expiry, the entry is absent once ttl has elapsed.
C10_OverwriteExpiry ==
    [][ret'.op = "get" =>
          \A h \in lastSet :
              h.key = ret'.id =>
                  /\ (h.over = "ttl" /\ h.ttl = NULL /\ h.value # NaN) =>
                         (ret'.ok /\ ret'.value = h.value)
                  /\ (h.over = "forever" /\ h.ttl # NULL /\ now > h.at + h.ttl) =>
                         ~ret'.ok]_vars


\* ------------------------------------------------------------------- C11
SubRows(r) == SelectSubscription(chat_subscriptions, r)

\* C11: subscribe and unsubscribe are idempotent and always return:
\* isSubscribed(r) answers true exactly when the most recent subscribe or
\* unsubscribe call on r was a subscribe (false when there was none);
\* subscribe(r), first or repeated, leaves r with the one row stamped with
\* the time of the call and unsubscribe(r) leaves r with none, and neither
\* touches a row of another resource.
C11_Step ==
    /\ ret'.op = "isSubscribed" =>
           /\ ret'.ok <=> \E c \in lastCall :
                              c.thread_id = ret'.id /\ c.op = "subscribe"
           /\ UNCHANGED chat_subscriptions
    /\ ret'.op = "subscribe" =>
           /\ ret'.ok
           /\ SelectSubscription(chat_subscriptions', ret'.id) =
                  {[thread_id |-> ret'.id, subscribed_at |-> now]}
    /\ ret'.op = "unsubscribe" =>
           /\ ret'.ok
           /\ SelectSubscription(chat_subscriptions', ret'.id) = {}
    /\ ret'.op \in {"subscribe", "unsubscribe"} =>
           \A r \in Resources \ {ret'.id} :
               SelectSubscription(chat_subscriptions', r) = SubRows(r)

C11_SubscribeIdempotent == [][C11_Step]_vars

\* A subscribe repeated at a later time has just re-stamped the row of a
\* resource while the other resource keeps its older subscription.
C11_Witness ==
    /\ ret.op = "subscribe"
    /\ \E c \in lastCall : c.thread_id = ret.id /\ c.op = "subscribe" /\ c.again
    /\ \E row \in SubRows(ret.id) : row.subscribed_at = now /\ now > 1
    /\ \E r \in Resources \ {ret.id} :
           \E row \in SubRows(r) : row.subscribed_at < now


\* ------------------------------------------------------------------- C14
TaskRows(id) == SelectTask(scheduled_tasks, id)

\* C14: updateTask(id, partial) gives every field the update carries its new
\* value and keeps every other field of that task and every other task as
\* they were; updated_at becomes the time of the call when the update carries
\* at least one field and stays as it was when it carries none.
C14_Post(id, u) ==
    /\ \A row \in scheduled_tasks : row.id # id => row \in scheduled_tasks'
    /\ Cardinality(scheduled_tasks') = Cardinality(scheduled_tasks)
    /\ \A row \in TaskRows(id) :
           \E new \in scheduled_tasks' :
               /\ new.id = id
               /\ \A f \in DOMAIN row :
                      new[f] = IF f \in DOMAIN u THEN u[f]
                               ELSE IF f = "updated_at" /\ DOMAIN u # {} THEN now
                               ELSE row[f]
    /\ UNCHANGED task_runs

C14_UpdateStep ==
    ret'.op = "updateTask" =>
        \A u \in Partials \cup Switches :
            updateTask(ret'.id, u) => C14_Post(ret'.id, u)

C14_UpdateExactlyPresent == [][C14_UpdateStep]_vars

\* task-1 was created before and has just been renamed and switched off,
\* with its prompt, cron and delivery as created, next to task-2.
C14_Witness ==
    /\ ret.op = "updateTask" /\ ret.id = "task-1"
    /\ \E row \in TaskRows("task-1") :
           /\ row.name = "name-2" /\ row.enabled = 0
           /\ row.prompt = "prompt-1" /\ row.cron = EveryMinute
           /\ row.updated_at = now /\ row.created_at < now
    /\ \E row \in TaskRows("task-2") : row.updated_at < now

\* ------------------------------------------------------------------- C15
\* C15: every run's task_id names a stored task; deleteTask(id) removes the
\* task and all of its runs and no run of another task; createTaskRun for a
\* task id that is not stored inserts nothing.
C15_RunsHaveTasks ==
    \A run \in task_runs : TaskRows(run.task_id) # {}

C15_Step ==
    /\ ret'.op = "deleteTask" =>
           /\ SelectTask(scheduled_tasks', ret'.id) = {}
           /\ RunsOf(task_runs', ret'.id) = {}
           /\ \A run \in task_runs : run.task_id # ret'.id => run \in task_runs'
           /\ task_runs' \subseteq task_runs
    /\ ret'.op = "createTaskRun" /\ TaskRows(ret'.value) = {} =>
           ~ret'.ok /\ UNCHANGED task_runs

C15_ReferentialIntegrity == []C15_RunsHaveTasks /\ [][C15_Step]_vars

\* A task that had a run was just deleted; the other task keeps its run.
C15_Witness ==
    /\ ret.op = "deleteTask" /\ ret.value = 1
    /\ RunsOf(task_runs, ret.id) = {}
    /\ \E run \in task_runs : run.task_id # ret.id

\* ------------------------------------------------------------------- C16
Returned == {out[i] : i \in 1..Len(out)}

\* C16: getDueTasks(t) returns, once each, exactly the stored tasks that are
\* enabled and have a next_run_at that is not NULL and is at most t.
C16_Step ==
    ret'.op = "getDueTasks" =>
        LET t == ret'.value
            returned == {out'[i] : i \in 1..Len(out')}
        IN  /\ returned \subseteq scheduled_tasks
            /\ Len(out') = Cardinality(returned)
            /\ \A row \in returned :
                   row.enabled # 0 /\ row.next_run_at # NULL /\ row.next_run_at <= t
            /\ \A row \in scheduled_tasks \ returned :
                   row.enabled = 0 \/ row.next_run_at = NULL \/ row.next_run_at > t
            /\ UNCHANGED scheduled_tasks

C16_DueExactly == [][C16_Step]_vars

\* One task was returned while a disabled task that is overdue was not.
C16_Witness ==
    /\ ret.op = "getDueTasks" /\ Len(out) = 1
    /\ \E row \in scheduled_tasks \ Returned :
           row.enabled = 0 /\ row.next_run_at # NULL /\ row.next_run_at <= ret.value

\* ------------------------------------------------------------------- C17
\* C17: a stored run has no finished_at exactly when its status is running.
C17_RunningIffUnfinished ==
    \A run \in task_runs : run.finished_at = NULL <=> run.status = "running"

\* A run in progress next to a run that ended in error.
C17_Witness ==
    /\ \E run \in task_runs : run.status = "running" /\ run.finished_at = NULL
    /\ \E run \in task_runs : run.status = "error" /\ run.finished_at # NULL

\* ------------------------------------------------------------------- C18
\* The result of getTaskRuns(id, limit): runs of the task only, each once,
\* latest start first, and no run left out started after one that is in.
C18_Ordered(id) ==
    LET returned == {out'[i] : i \in 1..Len(out')}
    IN  /\ returned \subseteq RunsOf(task_runs, id)
        /\ Len(out') = Cardinality(returned)
        /\ \A i, j \in 1..Len(out') :
               i < j => out'[i].started_at >= out'[j].started_at
        /\ \A left \in RunsOf(task_runs, id) \ returned :
               \A run \in returned : left.started_at <= run.started_at

\* C18 as stated: getTaskRuns(id, limit) returns at most limit runs, all of
\* task id, most recent first, and none left out is later than one returned.
C18_AtMostLimitStep ==
    ret'.op = "getTaskRuns" =>
        Len(out') <= ret'.value /\ C18_Ordered(ret'.id)

C18_AtMostLimit == [][C18_AtMostLimitStep]_vars

\* C18 amended: for limit >= 0 the result has min(limit, n) runs of the n
\* runs of the task and for a negative limit all n; they are runs of task id
\* only, most recent first, and none left out is later than one returned.
C18_LimitStep ==
    ret'.op = "getTaskRuns" =>
        LET limit == ret'.value
            n == Cardinality(RunsOf(task_runs, ret'.id))
        IN  /\ Len(out') = IF limit < 0 \/ limit > n THEN n ELSE limit
            /\ C18_Ordered(ret'.id)
            /\ UNCHANGED task_runs

C18_LimitUnlessNegative == [][C18_LimitStep]_vars

\* With limit 1 the later of the two runs of a task was returned and the
\* earlier one left out.
C18_Witness ==
    /\ ret.op = "getTaskRuns" /\ ret.value = 1 /\ Len(out) = 1
    /\ \E left \in RunsOf(task_runs, ret.id) : left.started_at < out[1].started_at


\* ------------------------------------------------------------------- C12
\* C12: create_task with a cron expression that does not parse is rejected
\* and leaves the task table, the run table and the scheduler's timers as
\* they were; with one that parses it is accepted.
C12_Step ==
    ret'.op = "create_task" =>
        /\ ret'.ok <=> ret'.value \in ValidCrons
        /\ ~ret'.ok => UNCHANGED <<scheduled_tasks, task_runs, crons, timers>>

C12_CreateValidatesCron == [][C12_Step]_vars

\* A create with the empty cron was just rejected by a running scheduler
\* that holds a task and its timer.
C12_Witness ==
    /\ ret.op = "create_task" /\ ~ret.ok /\ ret.value = ""
    /\ running /\ crons # {} /\ scheduled_tasks # {}

\* ------------------------------------------------------------------- C13
\* C13: update_task of a stored task with a cron value that does not parse
\* (the empty string included) is rejected, and the stored tasks and the
\* timers stay as they were.
C13_Step ==
    ret'.op = "update_task" /\ ret'.value \in InvalidCrons =>
        /\ ~ret'.ok
        /\ UNCHANGED <<scheduled_tasks, crons, timers>>

C13_UpdateValidatesCron == [][C13_Step]_vars

\* ------------------------------------------------------------------- C19
\* C19: start() on a running scheduler changes neither the timers nor any
\* stored task.
C19_Step ==
    ret'.op = "start" /\ running =>
        UNCHANGED <<scheduled_tasks, crons, timers, running>>

C19_StartIdempotent == [][C19_Step]_vars

\* start() was just called on a running scheduler whose timer was armed
\* at an earlier time.
C19_Witness ==
    /\ ret.op = "start" /\ ret.ok /\ running
    /\ \E c \in crons : c.armed_at < now

\* ------------------------------------------------------------------- C20
\* At most one armed timer per task id, and every armed timer is the one the
\* registry holds.
C20_OneTimerPerTask ==
    /\ timers = crons
    /\ \A c, d \in timers : c.task_id = d.task_id => c = d

\* C20: right after start() from the stopped state a timer is armed for
\* every enabled stored task and for no disabled one; and at every time the
\* registry holds at most one armed timer per task id.
C20_Step ==
    ret'.op = "start" /\ ~running =>
        \A task \in scheduled_tasks' :
            task.enabled # 0 <=> \E c \in timers' : c.task_id = task.id

C20_StartArmsEnabled == []C20_OneTimerPerTask /\ [][C20_Step]_vars


\* ------------------------------------------------------------------- C21
\* C21: while the scheduler is stopped no timer is armed and the registry is
\* empty, whatever is created, updated or reloaded meanwhile; stop() leaves
\* both empty; and a timer fires only while the scheduler is running.
C21_StoppedIsEmpty == ~running => crons = {} /\ timers = {}

C21_Step ==
    /\ ret'.op = "stop" => ~running' /\ crons' = {} /\ timers' = {}
    /\ ret'.op = "fire" => running

C21_StopPreventsFires == []C21_StoppedIsEmpty /\ [][C21_Step]_vars

\* An enabled task was just updated, and so reloaded, on a scheduler that
\* was stopped while an execution its timer had fired is still in flight.
C21_Witness ==
    /\ ~running /\ ret.op = "update_task" /\ ret.ok
    /\ \E task \in scheduled_tasks : task.enabled = 1
    /\ \E e \in inflight : e.via = "timer"


\* ------------------------------------------------------------------- C22
\* C22: after reload(t), called directly or by a tool that changed t, a
\* timer for t is armed exactly when t is stored, enabled and the scheduler
\* is running, and that timer carries the stored cron, prompt and delivery
\* of t, which is what its later fires execute.
C22_Step ==
    (ret'.op = "reload" \/ (ret'.op = "update_task" /\ ret'.ok)) =>
        LET task == SelectTask(scheduled_tasks', ret'.id)
        IN  /\ Armed(timers', ret'.id) # {} <=>
                   running /\ \E row \in task : row.enabled # 0
            /\ \A c \in Armed(timers', ret'.id) : \A row \in task :
                   /\ c.cron = row.cron
                   /\ c.prompt = row.prompt
                   /\ c.delivery = row.delivery

C22_ReloadRearms == [][C22_Step]_vars


\* ------------------------------------------------------------------- C23
\* C23: remove(t) leaves no timer of t armed or in the registry, keeps the
\* timers of every other task as they were, changes no task row and no run
\* row, and changes nothing at all when t had no timer.
C23_Step ==
    ret'.op = "remove" =>
        /\ Armed(timers', ret'.id) = {} /\ CronOf(crons', ret'.id) = {}
        /\ \A id \in TaskIds \ {ret'.id} :
               /\ Armed(timers', id) = Armed(timers, id)
               /\ CronOf(crons', id) = CronOf(crons, id)
        /\ UNCHANGED <<scheduled_tasks, task_runs, running>>
        /\ Armed(timers, ret'.id) = {} => UNCHANGED <<crons, timers>>

C23_RemoveOnlyOwnTimer == [][C23_Step]_vars

\* The timer of an enabled task was just removed from a running scheduler
\* and the other task's timer is still armed.
C23_Witness ==
    /\ ret.op = "remove" /\ running
    /\ \E row \in scheduled_tasks :
           row.id = ret.id /\ row.enabled = 1 /\ row.cron \in ValidCrons
    /\ Armed(timers, ret.id) = {}
    /\ \E c \in timers : c.task_id # ret.id /\ c \in crons


\* ------------------------------------------------------------------- C24
\* C24: runNow(t) on a stored task inserts exactly one run, running, and
\* touches no timer and no task row; when that execution finishes its run
\* (if still stored) becomes success or error and no other run changes, no
\* timer is added, removed or replaced, and the stored next_run_at of t is
\* the pending fire of t's timer, or what it was when t has no timer.
C24_Step ==
    /\ ret'.op = "runNow" /\ ret'.ok =>
           /\ \E run \in task_runs' \ task_runs :
                  /\ task_runs' = task_runs \cup {run}
                  /\ run.task_id = ret'.id /\ run.status = "running"
                  /\ run.started_at = now
           /\ UNCHANGED <<scheduled_tasks, crons, timers>>
    /\ ret'.op = "finish" /\ ret'.value.e.via = "runNow" =>
           LET e == ret'.value.e
           IN  /\ UNCHANGED <<crons, timers>>
               /\ {run.id : run \in task_runs'} = {run.id : run \in task_runs}
               /\ \A run \in task_runs' :
                      IF run.id = e.run_id
                      THEN run.status = (IF ret'.ok THEN "success" ELSE "error")
                      ELSE run \in task_runs
               /\ \A row \in SelectTask(scheduled_tasks', e.task_id) :
                      IF Armed(timers, e.task_id) = {}
                      THEN \E old \in scheduled_tasks :
                               old.id = row.id /\ old.next_run_at = row.next_run_at
                      ELSE \A c \in Armed(timers, e.task_id) :
                               row.next_run_at = c.next

C24_RunNowOutOfBand == [][C24_Step]_vars

\* A manual run of a task with an armed timer just finished after the timer
\* had fired meanwhile: its run is recorded and next_run_at is the timer's
\* pending fire.
C24_Witness ==
    /\ ret.op = "finish" /\ ret.value.e.via = "runNow"
    /\ \E run \in task_runs :
           run.id = ret.value.e.run_id /\ run.status = "success"
    /\ \E c \in timers : \E row \in scheduled_tasks :
           /\ c.task_id = ret.id /\ row.id = ret.id
           /\ row.next_run_at = c.next /\ c.armed_at < ret.value.e.started_at


\* ------------------------------------------------------------------- C25
\* C25: when the agent call of an execution fails, the execution's run (if
\* still stored) ends with status error, the failure message as result and
\* a finish time; executeTask returns the message instead of throwing, and
\* a timer's callback returns normally.
C25_Step ==
    /\ ret'.op = "finish" /\ ~ret'.ok =>
           /\ \A run \in SelectRun(task_runs', ret'.value.e.run_id) :
                  /\ run.status = "error"
                  /\ run.result = ret'.value.returned
                  /\ run.finished_at = now
           /\ \E o \in Outcomes : ~o.ok /\ ret'.value.returned = o.text
           /\ ~ret'.value.threw
    /\ ret'.op = "fire" => ret'.ok

C25_FailureRecorded == [][C25_Step]_vars

\* An execution fired by a timer just failed and its run says so.
C25_Witness ==
    /\ ret.op = "finish" /\ ~ret.ok /\ ret.value.e.via = "timer"
    /\ \E run \in SelectRun(task_runs, ret.value.e.run_id) :
           run.status = "error" /\ run.result = "boom"


\* ------------------------------------------------------------------- C26
\* C26: an execution of task A that fails leaves A as enabled as it was,
\* every timer (A's included, with its pending fire) and the registry as
\* they were, the row of every other task as it was, and the scheduler
\* running if it was.
C26_Step ==
    ret'.op = "finish" /\ ~ret'.ok =>
        /\ \A row \in SelectTask(scheduled_tasks', ret'.id) :
               \E old \in scheduled_tasks :
                   old.id = row.id /\ old.enabled = row.enabled
        /\ {row.id : row \in scheduled_tasks'} = {row.id : row \in scheduled_tasks}
        /\ \A id \in TaskIds \ {ret'.id} :
               SelectTask(scheduled_tasks', id) = SelectTask(scheduled_tasks, id)
        /\ UNCHANGED <<crons, timers, running>>

C26_FailureIsolated == [][C26_Step]_vars

\* An execution of one task just failed on a running scheduler; its timer
\* and the other task's timer are armed.
C26_Witness ==
    /\ ret.op = "finish" /\ ~ret.ok /\ running
    /\ \E c \in timers : c.task_id = ret.id
    /\ \E c \in timers : c.task_id # ret.id
    /\ \E row \in scheduled_tasks : row.id # ret.id /\ row.updated_at < now


\* ------------------------------------------------------------------- C27
\* C27: when an execution of a stored task finishes, by timer or runNow,
\* with success or error, with or without a timer armed for the task, the
\* task's last_run_at is the start time of that execution and the row was
\* written at the time of the finish.
C27_Step ==
    ret'.op = "finish" =>
        \A row \in SelectTask(scheduled_tasks', ret'.id) :
            /\ row.last_run_at = ret'.value.e.started_at
            /\ row.updated_at = now

C27_FinishRecordsRun == [][C27_Step]_vars


\* ------------------------------------------------------------------- C28
\* C28: whenever a task is enabled and has an armed timer, the timer runs
\* the task's stored cron and the stored next_run_at is the timer's pending
\* fire.
C28_NextRunIsNextFire ==
    \A row \in scheduled_tasks : \A c \in Armed(timers, row.id) :
        row.enabled # 0 => c.cron = row.cron /\ row.next_run_at = c.next

\* ------------------------------------------------------------------- C29
\* C29: at most one execution of a task is in flight.
C29_NoOverlap ==
    \A e, f \in inflight : e.task_id = f.task_id => e = f

\* ------------------------------------------------------------------- C30
\* C30: a fire, a runNow and a finish of task A change no row of another
\* task and no run of another task; and while an execution of A is in
\* flight the timer of B fires and B's execution starts and finishes (the
\* witness).
C30_Step ==
    ret'.op \in {"fire", "runNow", "finish"} =>
        \A id \in TaskIds \ {ret'.id} :
            /\ SelectTask(scheduled_tasks', id) = SelectTask(scheduled_tasks, id)
            /\ RunsOf(task_runs', id) = RunsOf(task_runs, id)

C30_TasksIndependent == [][C30_Step]_vars

\* An execution that task B's timer fired has just finished, started no
\* earlier than an execution of task A that is still in flight.
C30_Witness ==
    /\ ret.op = "finish" /\ ret.value.e.via = "timer"
    /\ \E run \in SelectRun(task_runs, ret.value.e.run_id) :
           run.task_id = ret.id /\ run.finished_at # NULL
    /\ \E e \in inflight :
           e.task_id # ret.id /\ e.started_at <= ret.value.e.started_at

\* ------------------------------------------------------------------- C31
InFlight(r) == \E e \in inflight : e.run_id = r

\* The run of an execution that has returned: finished, or gone with its task.
Finalized(r) ==
    /\ ~InFlight(r)
    /\ \A row \in SelectRun(task_runs, r) :
           row.status \in {"success", "error"} /\ row.finished_at # NULL

\* A run is finalized by the completion of its own execution and in no
\* other step, and a finished run is never written again: it stays as it
\* is or is deleted with its task.
C31_Once ==
    /\ \A row \in task_runs :
           row.status # "running" =>
               row \in task_runs' \/ SelectRun(task_runs', row.id) = {}
    /\ \A row \in task_runs' :
           row.status # "running" /\ row \notin task_runs =>
               /\ ret'.op = "finish" /\ ret'.value.e.run_id = row.id
               /\ ret'.value.e \in inflight \ inflight'
               /\ \E old \in SelectRun(task_runs, row.id) :
                      old.status = "running"
               /\ row.finished_at = now
               /\ row.status = IF ret'.ok THEN "success" ELSE "error"

\* C31: every execution in flight is eventually finalized, whatever stop,
\* reload, remove and delete_task do meanwhile: its run leaves running for
\* success or error with finished_at set, exactly once, unless the run was
\* deleted with its task.
C31_EventuallyFinalized ==
    /\ \A r \in RunIds : InFlight(r) ~> Finalized(r)
    /\ [][C31_Once]_vars

\* A timer-fired execution has just finished as an error after the
\* scheduler was stopped while it was in flight; its run is stored.
C31_Witness ==
    /\ ret.op = "finish" /\ ~ret.ok /\ ret.value.e.via = "timer"
    /\ ~running /\ crons = {}
    /\ Finalized(ret.value.e.run_id)
    /\ \E row \in SelectRun(task_runs, ret.value.e.run_id) :
           row.status = "error" /\ row.finished_at > row.started_at

\* ------------------------------------------------------------------- C32
LookupOps == {"getTask", "update_task", "delete_task", "runNow", "run_task_now"}

\* A call of one of the lookup operations for an id with no stored task
\* returns not-found (it does not throw) and changes no table and no timer.
C32_Step ==
    ret'.op \in LookupOps /\ TaskRows(ret'.id) = {} =>
        /\ ~ret'.ok
        /\ ret'.op \in {"runNow", "run_task_now"} =>
               ~ret'.value.threw /\ ret'.value.error = NotFound(ret'.id)
        /\ ret'.op = "getTask" => ret'.value = {}
        /\ UNCHANGED <<storeVars, schedVars>>

\* C32: get, update, delete and runNow on an unknown task id return a
\* not-found outcome to the caller instead of throwing, and leave the task
\* store, the run history and the timer registry unchanged.
C32_NotFoundIsStructured == [][C32_Step]_vars

\* ------------------------------------------------------------------- C33
\* The task a successful create_task stored is enabled, has never run and
\* has the next fire of its cron in UTC as next run.
C33_Step ==
    ret'.op = "create_task" /\ ret'.ok =>
        \E row \in SelectTask(scheduled_tasks', ret'.id) :
            /\ row.cron = ret'.value /\ row.enabled = 1
            /\ row.last_run_at = NULL
            /\ row.next_run_at = NextRun(row.cron, now)

\* C33: a task created with a valid cron is stored enabled, with no last
\* run and with next_run_at the next fire of the cron evaluated in UTC,
\* whether the scheduler is running or not when it is created.
C33_CreatedTaskIsFresh == [][C33_Step]_vars

\* ------------------------------------------------------------------- C34
\* The database holds every object of the schema once.
SchemaOnce(master) ==
    /\ Len(master) = Len(Statements)
    /\ \A i \in DOMAIN Statements :
           Cardinality({j \in DOMAIN master : master[j] = Statements[i]}) = 1

C34_Step ==
    ret'.op = "initDatabase" =>
        /\ ret'.ok
        /\ SchemaOnce(ret'.value.master)
        /\ UNCHANGED <<chat_subscriptions, chat_cache, chat_locks,
                       scheduled_tasks, task_runs>>
        /\ ret'.id = MemoryPath => UNCHANGED db_file
        /\ ret'.id = FilePath =>
               /\ db_file' = ret'.value
               /\ HasTables => UNCHANGED db_file

\* C34: initDatabase on a path that was opened before, or on ":memory:"
\* again, does not fail, leaves every table, index and trigger there once,
\* and keeps every row written to the file since it was first opened.
C34_InitIdempotent == [][C34_Step]_vars

\* The file has just been opened again, with a subscription, a task and a
\* run of it written since it was first opened.
C34_Witness ==
    /\ ret.op = "initDatabase" /\ ret.id = FilePath /\ ret.ok
    /\ chat_subscriptions # {} /\ scheduled_tasks # {} /\ task_runs # {}
    /\ db_file.journal = "wal" /\ SchemaOnce(db_file.master)

\* ------------------------------------------------------------------- C35
\* C35: while the scheduler is running, after any create_task, update_task
\* and delete_task calls, a task id has a timer armed exactly when a task
\* with that id is stored and enabled.
C35_TimerIffEnabled ==
    running =>
        \A id \in TaskIds :
            Armed(timers, id) # {} <=>
                \E row \in TaskRows(id) : row.enabled = 1

\* ------------------------------------------------------------------- C36
\* start() on a stopped scheduler arms every enabled task whose cron
\* parses and no other; reload(id) of a task whose cron does not parse
\* arms nothing for it and leaves the other timers alone.  Both return.
C36_Step ==
    /\ ret'.op = "start" /\ ~running =>
           /\ running'
           /\ \A id \in TaskIds :
                  Armed(timers', id) # {} <=>
                      \E row \in TaskRows(id) :
                          row.enabled = 1 /\ row.cron \in ValidCrons
    /\ ret'.op = "reload"
           /\ (\E row \in TaskRows(ret'.id) : row.cron \notin ValidCrons) =>
           /\ Armed(timers', ret'.id) = {}
           /\ \A id \in TaskIds \ {ret'.id} :
                  Armed(timers', id) = Armed(timers, id)

\* C36: a stored task whose cron does not parse is skipped by start() and
\* reload(): no timer for it, no exception, and start() still arms every
\* other enabled task.
C36_BadCronSkipped == [][C36_Step]_vars

\* start() has just armed task-2 next to task-1, which is enabled and
\* stored with the empty cron.
C36_Witness ==
    /\ ret.op = "start" /\ ~ret.ok /\ running
    /\ \E row \in TaskRows("task-1") : row.enabled = 1 /\ row.cron = ""
    /\ Armed(timers, "task-1") = {}
    /\ \E c \in Armed(timers, "task-2") : c.armed_at = now

\* ------------------------------------------------------------------- C37
\* The fields of a task row other than next_run_at and updated_at.
Kept == {"id", "name", "cron", "prompt", "delivery", "enabled",
         "last_run_at", "created_at"}

\* start() and reload() keep every task, and every field of it other than
\* next_run_at and updated_at: last_run_at in particular.
C37_Step ==
    ret'.op \in {"start", "reload"} =>
        /\ \A row \in scheduled_tasks :
               \E new \in TaskRows(row.id)' :
                   \A f \in Kept : new[f] = row[f]
        /\ Cardinality(scheduled_tasks') = Cardinality(scheduled_tasks)

\* C37: arming a timer leaves last_run_at as stored: start() and reload()
\* change only next_run_at and updated_at of the tasks they arm, and a
\* task that never ran still has no last_run_at after it is armed.
C37_ArmingKeepsLastRun == [][C37_Step]_vars

\* ------------------------------------------------------------------- C38
\* The completion of an execution whose task is no longer stored returns
\* and writes nothing: no task row, no run row, no timer.
C38_Step ==
    ret'.op = "finish" /\ TaskRows(ret'.id) = {} =>
        /\ ~ret'.value.threw
        /\ UNCHANGED <<scheduled_tasks, task_runs, crons, timers>>
        /\ SelectTask(scheduled_tasks', ret'.id) = {}
        /\ SelectRun(task_runs', ret'.value.e.run_id) = {}
        /\ RunsOf(task_runs', ret'.id) = {}
        /\ Armed(timers', ret'.id) = {} /\ CronOf(crons', ret'.id) = {}

\* C38: when a task was removed from the scheduler and deleted from the
\* store while an execution of it was in flight, the completion of that
\* execution raises no error and brings back neither the task, nor a run
\* of it, nor a timer for it.
C38_DeletionWins == [][C38_Step]_vars

\* A timer-fired execution has just completed after its task was deleted:
\* the scheduler is still running and nothing of the task is left.
C38_Witness ==
    /\ ret.op = "finish" /\ ret.value.e.via = "timer" /\ running
    /\ TaskRows(ret.id) = {} /\ task_runs = {}
    /\ timers = {} /\ inflight = {}

\* ------------------------------------------------------------------- C39
\* A delivery configuration is present: the text is JSON and not the empty
\* object.
Present(delivery) ==
    ~ParseDelivery(delivery).throws /\ DOMAIN ParseDelivery(delivery).object # {}

\* The execution a fire or runNow step started was sent the task's prompt
\* followed by an instruction when the delivery is present, and the task's
\* prompt alone otherwise; it started in either case.
C39_Step ==
    ret'.op \in {"fire", "runNow"} /\ TaskRows(ret'.id) # {} =>
        \E row \in TaskRows(ret'.id), e \in inflight' \ inflight :
            /\ e.task_id = row.id
            /\ IF Present(row.delivery)
               THEN /\ Len(e.prompt) > Len(row.prompt)
                    /\ SubSeq(e.prompt, 1, Len(row.prompt)) = row.prompt
               ELSE e.prompt = row.prompt

\* C39: the prompt sent to the agent is the task's prompt followed by a
\* delivery instruction exactly when the task has a delivery configuration;
\* with the delivery absent, empty or unparsable the prompt is sent as it
\* is, and the execution proceeds.
C39_InstructionIffDelivery == [][C39_Step]_vars

====
